---- MODULE Spec2Model ----
(***************************************************************************)
(* The dual-stack iptables runner of util/linuxfw over the in-memory       *)
(* controller fakeIPTables (iptables_runner_test.go).                      *)
(*                                                                         *)
(* The controller (Insert, Append, Exists, Delete, ClearChain, NewChain,   *)
(* DeleteChain, newIPTables) is translated from the test file.  The runner *)
(* itself (iptables_runner.go) is not among the sources; its operations    *)
(* are modelled from sections 4.2 and 7 of the specification: each one is  *)
(* the sequence of controller calls the specification describes, stopping  *)
(* at the first fatal error.                                               *)
(***************************************************************************)
EXTENDS Integers, Sequences, FiniteSets, TLC

VARIABLES
    n,        \* n[f]: the map fakeIPTables.n of family f ("table/chain" -> rules)
    hasNAT,   \* hasNAT[f]: the runner's NAT-capability flag of family f
    last,     \* the runner operation that returned last, with its result
    prev      \* the value of n when that operation was called

vars == <<n, hasNAT, last, prev>>

(***************************************************************************)
(* Bounds of the model.                                                    *)
(***************************************************************************)
\* A runner operation is explored only while no chain holds more than
\* MaxDup copies of one rule.
MaxDup == 2

\* A direct controller call is explored only while no chain holds more than
\* MaxLen rules.
MaxLen == 3

(***************************************************************************)
(* Values.                                                                 *)
(***************************************************************************)
Nil == "nil"
errExec == "execution failed"
errExit1 == "exitcode:1"

Fams == <<"v4", "v6">>
FamSet == {"v4", "v6"}

BuiltinChains ==
    {"filter/INPUT", "filter/OUTPUT", "filter/FORWARD",
     "nat/PREROUTING", "nat/OUTPUT", "nat/POSTROUTING"}

OwnedChains == {"filter/ts-input", "filter/ts-forward", "nat/ts-postrouting"}

TailscaleSubnetRouteMark == "0x40000"
TailscaleFwmarkMask == "0xff0000"
ChromeOSVMRange == "100.115.92.0/23"
CGNATRange == "100.64.0.0/10"

V4Addrs == {"192.168.0.2", "192.168.0.3"}
V6Addrs == {"2001:db8::2"}
\* the addresses the caller passes: the test's two, and a second v4 address
\* where a claim is about loopback rules of several addresses
Addrs == {"192.168.0.2", "2001:db8::2"}
AddrsLo == V4Addrs \cup V6Addrs
Tuns == {"tun0"}

\* What the built-in chains of each family hold when the runner starts:
\* nothing (newIPTables), or rules of other tools.
ForeignLists ==
    {[v4 |-> << >>, v6 |-> << >>],
     [v4 |-> <<"-j DROP">>, v6 |-> <<"-p ipv6-icmp -j ACCEPT", "-j DROP">>]}

(***************************************************************************)
(* fakeIPTables.                                                           *)
(***************************************************************************)
RECURSIVE Join(_)
\* strings.Join(args, " ")
Join(args) ==
    IF Len(args) = 0 THEN ""
    ELSE IF Len(args) = 1 THEN args[1]
    ELSE args[1] \o " " \o Join(Tail(args))

Key(table, chain) == table \o "/" \o chain

\* n.n[k] of a Go map: the zero value (nil slice) for a missing key
Rules(m, k) == IF k \in DOMAIN m THEN m[k] ELSE << >>

hasChain(m, table, chain) == Key(table, chain) \in DOMAIN m

newIPTables == [k \in BuiltinChains |-> << >>]

\* Insert that ignores pos and puts the rule last
InsertAtEnd(m, table, chain, pos, args) ==
    LET k == Key(table, chain) IN
    IF k \in DOMAIN m
    THEN [n |-> [m EXCEPT ![k] = Append(m[k], Join(args))],
          err |-> Nil, ok |-> FALSE]
    ELSE [n |-> m, err |-> errExec, ok |-> FALSE]

\* Insert that overwrites the rule at pos instead of shifting it down
InsertReplaces(m, table, chain, pos, args) ==
    LET k == Key(table, chain) IN
    IF k \in DOMAIN m /\ pos <= Len(m[k]) + 1
    THEN [n |-> [m EXCEPT ![k] = SubSeq(m[k], 1, pos - 1)
                                  \o <<Join(args)>>
                                  \o SubSeq(m[k], pos + 1, Len(m[k]))],
          err |-> Nil, ok |-> FALSE]
    ELSE [n |-> m, err |-> errExec, ok |-> FALSE]

Insert(m, table, chain, pos, args) ==
    LET k == Key(table, chain) IN
    IF k \in DOMAIN m
    THEN LET rules == m[k] IN
         IF pos > Len(rules) + 1
         THEN [n |-> m, err |-> errExec, ok |-> FALSE]
         ELSE [n |-> [m EXCEPT ![k] = SubSeq(rules, 1, pos - 1)
                                       \o <<Join(args)>>
                                       \o SubSeq(rules, pos, Len(rules))],
               err |-> Nil, ok |-> FALSE]
    ELSE [n |-> m, err |-> errExec, ok |-> FALSE]

\* Append that passes position 1 instead of len+1
AppendAtFront(m, table, chain, args) ==
    Insert(m, table, chain, 1, args)

AppendRule(m, table, chain, args) ==
    Insert(m, table, chain, Len(Rules(m, Key(table, chain))) + 1, args)

\* Exists that never finds the rule
ExistsNever(m, table, chain, args) ==
    IF Key(table, chain) \in DOMAIN m
    THEN [n |-> m, err |-> Nil, ok |-> FALSE]
    ELSE [n |-> m, err |-> errExec, ok |-> FALSE]

Exists(m, table, chain, args) ==
    LET k == Key(table, chain) IN
    IF k \in DOMAIN m
    THEN [n |-> m, err |-> Nil,
          ok |-> \E i \in 1..Len(m[k]) : m[k][i] = Join(args)]
    ELSE [n |-> m, err |-> errExec, ok |-> FALSE]

\* index of the first rule equal to r, 0 when there is none
FirstIndex(rules, r) ==
    IF \E i \in 1..Len(rules) : rules[i] = r
    THEN CHOOSE i \in 1..Len(rules) :
             /\ rules[i] = r
             /\ \A j \in 1..(i - 1) : rules[j] # r
    ELSE 0

\* Delete that finds the rule and leaves it in place
DeleteKeeps(m, table, chain, args) ==
    LET k == Key(table, chain) IN
    IF k \in DOMAIN m /\ FirstIndex(m[k], Join(args)) # 0
    THEN [n |-> m, err |-> Nil, ok |-> FALSE]
    ELSE [n |-> m, err |-> errExec, ok |-> FALSE]

\* Delete that cuts the chain at the rule: rules[:i]
DeleteTruncates(m, table, chain, args) ==
    LET k == Key(table, chain) IN
    IF k \in DOMAIN m /\ FirstIndex(m[k], Join(args)) # 0
    THEN [n |-> [m EXCEPT ![k] =
                    SubSeq(m[k], 1, FirstIndex(m[k], Join(args)) - 1)],
          err |-> Nil, ok |-> FALSE]
    ELSE [n |-> m, err |-> errExec, ok |-> FALSE]

\* Delete that removes every rule equal to the one asked for
DeleteAll(m, table, chain, args) ==
    LET k == Key(table, chain) IN
    IF k \in DOMAIN m /\ FirstIndex(m[k], Join(args)) # 0
    THEN [n |-> [m EXCEPT ![k] = SelectSeq(m[k], LAMBDA r : r # Join(args))],
          err |-> Nil, ok |-> FALSE]
    ELSE [n |-> m, err |-> errExec, ok |-> FALSE]

Delete(m, table, chain, args) ==
    LET k == Key(table, chain) IN
    IF k \in DOMAIN m
    THEN LET rules == m[k]
             i == FirstIndex(rules, Join(args)) IN
         IF i # 0
         THEN [n |-> [m EXCEPT ![k] = SubSeq(rules, 1, i - 1)
                                       \o SubSeq(rules, i + 1, Len(rules))],
               err |-> Nil, ok |-> FALSE]
         ELSE [n |-> m, err |-> errExec, ok |-> FALSE]
    ELSE [n |-> m, err |-> errExec, ok |-> FALSE]

\* ClearChain that reports success and leaves the rules
ClearChainKeeps(m, table, chain) ==
    IF Key(table, chain) \in DOMAIN m
    THEN [n |-> m, err |-> Nil, ok |-> FALSE]
    ELSE [n |-> m, err |-> errExit1, ok |-> FALSE]

ClearChain(m, table, chain) ==
    LET k == Key(table, chain) IN
    IF k \in DOMAIN m
    THEN [n |-> [m EXCEPT ![k] = << >>], err |-> Nil, ok |-> FALSE]
    ELSE [n |-> m, err |-> errExit1, ok |-> FALSE]

NewChain(m, table, chain) ==
    LET k == Key(table, chain) IN
    IF k \in DOMAIN m
    THEN [n |-> m, err |-> errExec, ok |-> FALSE]
    ELSE [n |-> [j \in DOMAIN m \cup {k} |-> IF j = k THEN << >> ELSE m[j]],
          err |-> Nil, ok |-> FALSE]

\* DeleteChain that reports success and leaves the chain in the map
DeleteChainKeeps(m, table, chain) ==
    LET k == Key(table, chain) IN
    IF k \in DOMAIN m /\ Len(m[k]) = 0
    THEN [n |-> m, err |-> Nil, ok |-> FALSE]
    ELSE [n |-> m, err |-> errExec, ok |-> FALSE]

\* DeleteChain that removes the chain whether or not it holds rules
DeleteChainAny(m, table, chain) ==
    LET k == Key(table, chain) IN
    IF k \in DOMAIN m
    THEN [n |-> [j \in DOMAIN m \ {k} |-> m[j]], err |-> Nil, ok |-> FALSE]
    ELSE [n |-> m, err |-> errExec, ok |-> FALSE]

DeleteChain(m, table, chain) ==
    LET k == Key(table, chain) IN
    IF k \in DOMAIN m
    THEN IF Len(m[k]) # 0
         THEN [n |-> m, err |-> errExec, ok |-> FALSE]
         ELSE [n |-> [j \in DOMAIN m \ {k} |-> m[j]], err |-> Nil, ok |-> FALSE]
    ELSE [n |-> m, err |-> errExec, ok |-> FALSE]

(***************************************************************************)
(* The runner: one controller per family and the two NAT flags.            *)
(***************************************************************************)
\* one call of the controller interface
Invoke(m, c) ==
    CASE c.op = "Insert"      -> Insert(m, c.table, c.chain, c.pos, c.args)
      [] c.op = "Append"      -> AppendRule(m, c.table, c.chain, c.args)
      [] c.op = "Exists"      -> Exists(m, c.table, c.chain, c.args)
      [] c.op = "Delete"      -> Delete(m, c.table, c.chain, c.args)
      [] c.op = "ClearChain"  -> ClearChain(m, c.table, c.chain)
      [] c.op = "NewChain"    -> NewChain(m, c.table, c.chain)
      [] c.op = "DeleteChain" -> DeleteChain(m, c.table, c.chain)

Call(op, table, chain, pos, args) ==
    [op |-> op, table |-> table, chain |-> chain, pos |-> pos, args |-> args]

\* The state of a runner operation under way: the two controllers, the error
\* it is about to return, the controller calls it has made (each with the
\* family, the result and the length the chain had, -1 for a missing chain),
\* the lines given to the log callback, and the result of its latest call.
Start(n0) ==
    [n |-> n0, err |-> Nil, calls |-> << >>, log |-> << >>,
     res |-> [err |-> Nil, ok |-> FALSE]]

call(st, f, c) ==
    LET r == Invoke(st.n[f], c)
        k == Key(c.table, c.chain) IN
    [st EXCEPT !.n[f] = r.n,
               !.res = [err |-> r.err, ok |-> r.ok],
               !.calls = Append(@, [fam |-> f, op |-> c.op, table |-> c.table,
                                    chain |-> c.chain, pos |-> c.pos,
                                    args |-> c.args, err |-> r.err,
                                    len |-> IF k \in DOMAIN st.n[f]
                                            THEN Len(st.n[f][k]) ELSE -1])]

\* a controller call whose error is dropped
mustIgnore(st, f, c) == call(st, f, c)

\* a controller call whose error is fatal to the operation
must(st, f, c) ==
    LET s == call(st, f, c) IN [s EXCEPT !.err = s.res.err]

ToLower(chain) ==
    CASE chain = "INPUT"       -> "input"
      [] chain = "FORWARD"     -> "forward"
      [] chain = "POSTROUTING" -> "postrouting"

tsChain(chain) == "ts-" \o ToLower(chain)

hookArgs(chain) == <<"-j", tsChain(chain)>>

\* AddChains: create one owned chain
create(st, f, table, chain) ==
    must(st, f, Call("NewChain", table, chain, 0, << >>))

\* DelChains: ClearChain first; a missing chain is nothing to do; then DeleteChain
delChain(st, f, table, chain) ==
    LET s1 == call(st, f, Call("ClearChain", table, chain, 0, << >>)) IN
    IF s1.res.err # Nil
    THEN s1
    ELSE must(s1, f, Call("DeleteChain", table, chain, 0, << >>))

\* AddHooks: insert the jump at position 1 unless it already exists
divert(st, f, table, chain) ==
    LET s1 == must(st, f, Call("Exists", table, chain, 0, hookArgs(chain))) IN
    IF s1.err # Nil \/ s1.res.ok
    THEN s1
    ELSE must(s1, f, Call("Insert", table, chain, 1, hookArgs(chain)))

\* DelHooks that returns the error of a failed delete
unhookFatal(st, f, table, chain) ==
    must(st, f, Call("Delete", table, chain, 0, hookArgs(chain)))

\* DelHooks that empties the built-in chain to get rid of the jump
unhookClears(st, f, table, chain) ==
    call(st, f, Call("ClearChain", table, chain, 0, << >>))

\* DelHooks: delete the jump; a failure only goes to the log callback
unhook(st, f, table, chain) ==
    LET s1 == call(st, f, Call("Delete", table, chain, 0, hookArgs(chain))) IN
    IF s1.res.err # Nil
    THEN [s1 EXCEPT !.log = Append(@, <<f, table, chain>>)]
    ELSE s1

\* DelBase: flush one owned chain; a missing chain is nothing to do
flush(st, f, table, chain) ==
    call(st, f, Call("ClearChain", table, chain, 0, << >>))

Exec(st, s) ==
    IF st.err # Nil THEN st
    ELSE CASE s.kind = "create"   -> create(st, s.fam, s.table, s.chain)
           [] s.kind = "delChain" -> delChain(st, s.fam, s.table, s.chain)
           [] s.kind = "divert"   -> divert(st, s.fam, s.table, s.chain)
           [] s.kind = "unhook"   -> unhook(st, s.fam, s.table, s.chain)
           [] s.kind = "flush"    -> flush(st, s.fam, s.table, s.chain)
           [] s.kind = "append"   ->
                must(st, s.fam, Call("Append", s.table, s.chain, 0, s.args))
           [] s.kind = "insert"   ->
                must(st, s.fam, Call("Insert", s.table, s.chain, 1, s.args))
           [] s.kind = "delete"   ->
                must(st, s.fam, Call("Delete", s.table, s.chain, 0, s.args))

RECURSIVE Run(_, _)
\* the steps of an operation in order; Exec skips them after a fatal error
Run(st, steps) ==
    IF Len(steps) = 0 THEN st ELSE Run(Exec(st, Head(steps)), Tail(steps))

Step(kind, f, table, chain, args) ==
    [kind |-> kind, fam |-> f, table |-> table, chain |-> chain, args |-> args]

\* the tables taken to be those of v4 alone
getTablesV4 == <<"v4">>

getTables == Fams

\* the NAT tables taken to be all tables, whatever the flags
getNATTablesAll(flags) == Fams

getNATTables(flags) == SelectSeq(Fams, LAMBDA f : flags[f])

RECURSIVE Each(_, _)
\* for _, ipt := range tables { ... }: the steps F[ipt] of each table in turn
Each(fs, F) ==
    IF Len(fs) = 0 THEN << >> ELSE F[Head(fs)] \o Each(Tail(fs), F)

(***************************************************************************)
(* The rules the runner composes.                                          *)
(***************************************************************************)
markArg == TailscaleSubnetRouteMark \o "/" \o TailscaleFwmarkMask

vmReturnArgs(tun) == <<"!", "-i", tun, "-s", ChromeOSVMRange, "-j", "RETURN">>
cgnatDropArgs(tun) == <<"!", "-i", tun, "-s", CGNATRange, "-j", "DROP">>
inAcceptArgs(tun) == <<"-i", tun, "-j", "ACCEPT">>
markSetArgs(tun) == <<"-i", tun, "-j", "MARK", "--set-mark", markArg>>
markAcceptArgs == <<"-m", "mark", "--mark", markArg, "-j", "ACCEPT">>
fwdDropArgs(tun) == <<"-o", tun, "-s", CGNATRange, "-j", "DROP">>
outAcceptArgs(tun) == <<"-o", tun, "-j", "ACCEPT">>
loopbackArgs(addr) == <<"-i", "lo", "-s", addr, "-j", "ACCEPT">>
snatArgs == <<"-m", "mark", "--mark", markArg, "-j", "MASQUERADE">>

\* the controller an address is dispatched to
addrFam(addr) == IF addr \in V4Addrs THEN "v4" ELSE "v6"

(***************************************************************************)
(* The runner's operations, as the steps each takes.                       *)
(***************************************************************************)
AddChainsSteps(flags) ==
    Each(getTables, [f \in FamSet |->
        <<Step("create", f, "filter", "ts-input", << >>),
          Step("create", f, "filter", "ts-forward", << >>)>>])
    \o Each(getNATTables(flags), [f \in FamSet |->
        <<Step("create", f, "nat", "ts-postrouting", << >>)>>])

DelChainsSteps(flags) ==
    Each(getTables, [f \in FamSet |->
        <<Step("delChain", f, "filter", "ts-input", << >>),
          Step("delChain", f, "filter", "ts-forward", << >>)>>])
    \o Each(getNATTables(flags), [f \in FamSet |->
        <<Step("delChain", f, "nat", "ts-postrouting", << >>)>>])

AddHooksSteps(flags) ==
    Each(getTables, [f \in FamSet |->
        <<Step("divert", f, "filter", "INPUT", << >>),
          Step("divert", f, "filter", "FORWARD", << >>)>>])
    \o Each(getNATTables(flags), [f \in FamSet |->
        <<Step("divert", f, "nat", "POSTROUTING", << >>)>>])

DelHooksSteps(flags) ==
    Each(getTables, [f \in FamSet |->
        <<Step("unhook", f, "filter", "INPUT", << >>),
          Step("unhook", f, "filter", "FORWARD", << >>)>>])
    \o Each(getNATTables(flags), [f \in FamSet |->
        <<Step("unhook", f, "nat", "POSTROUTING", << >>)>>])

addBase4Steps(tun) ==
    <<Step("append", "v4", "filter", "ts-input", vmReturnArgs(tun)),
      Step("append", "v4", "filter", "ts-input", cgnatDropArgs(tun)),
      Step("append", "v4", "filter", "ts-input", inAcceptArgs(tun)),
      Step("append", "v4", "filter", "ts-forward", markSetArgs(tun)),
      Step("append", "v4", "filter", "ts-forward", markAcceptArgs),
      Step("append", "v4", "filter", "ts-forward", fwdDropArgs(tun)),
      Step("append", "v4", "filter", "ts-forward", outAcceptArgs(tun))>>

addBase6Steps(tun) ==
    <<Step("append", "v6", "filter", "ts-input", inAcceptArgs(tun)),
      Step("append", "v6", "filter", "ts-forward", markSetArgs(tun)),
      Step("append", "v6", "filter", "ts-forward", markAcceptArgs),
      Step("append", "v6", "filter", "ts-forward", outAcceptArgs(tun))>>

AddBaseSteps(tun) == addBase4Steps(tun) \o addBase6Steps(tun)

DelBaseSteps ==
    Each(getTables, [f \in FamSet |->
        <<Step("flush", f, "filter", "ts-input", << >>),
          Step("flush", f, "filter", "ts-forward", << >>)>>])

AddLoopbackRuleSteps(addr) ==
    <<Step("insert", addrFam(addr), "filter", "ts-input", loopbackArgs(addr))>>

DelLoopbackRuleSteps(addr) ==
    <<Step("delete", addrFam(addr), "filter", "ts-input", loopbackArgs(addr))>>

AddSNATRuleSteps(flags) ==
    Each(getNATTables(flags), [f \in FamSet |->
        <<Step("append", f, "nat", "ts-postrouting", snatArgs)>>])

DelSNATRuleSteps(flags) ==
    Each(getNATTables(flags), [f \in FamSet |->
        <<Step("delete", f, "nat", "ts-postrouting", snatArgs)>>])

AddChains(n0, flags) == Run(Start(n0), AddChainsSteps(flags))
DelChains(n0, flags) == Run(Start(n0), DelChainsSteps(flags))
AddHooks(n0, flags) == Run(Start(n0), AddHooksSteps(flags))
DelHooks(n0, flags) == Run(Start(n0), DelHooksSteps(flags))
AddBase(n0, tun) == Run(Start(n0), AddBaseSteps(tun))
DelBase(n0) == Run(Start(n0), DelBaseSteps)
AddLoopbackRule(n0, addr) == Run(Start(n0), AddLoopbackRuleSteps(addr))
DelLoopbackRule(n0, addr) == Run(Start(n0), DelLoopbackRuleSteps(addr))
AddSNATRule(n0, flags) == Run(Start(n0), AddSNATRuleSteps(flags))
DelSNATRule(n0, flags) == Run(Start(n0), DelSNATRuleSteps(flags))

(***************************************************************************)
(* The state machine: the caller invokes the runner's operations one at a  *)
(* time, in any order.                                                     *)
(***************************************************************************)
\* the number of rules of a chain equal to r
Count(rules, r) == Cardinality({i \in 1..Len(rules) : rules[i] = r})

Bounded(n1) ==
    \A f \in FamSet : \A k \in DOMAIN n1[f] :
        \A i \in 1..Len(n1[f][k]) : Count(n1[f][k], n1[f][k][i]) <= MaxDup

\* newFakeIPTablesRunner, with the flags and the other tools' rules left open
Init ==
    /\ \E pre \in ForeignLists :
          n = [f \in FamSet |-> [k \in DOMAIN newIPTables |-> pre[f]]]
    /\ hasNAT \in [FamSet -> BOOLEAN]
    /\ last = [op |-> "none", arg |-> "", err |-> Nil,
               calls |-> << >>, log |-> << >>]
    /\ prev = n

Return(op, arg, r) ==
    /\ Bounded(r.n)
    /\ n' = r.n
    /\ last' = [op |-> op, arg |-> arg, err |-> r.err,
                calls |-> r.calls, log |-> r.log]
    /\ prev' = n
    /\ UNCHANGED hasNAT

DoAddChains == Return("AddChains", "", AddChains(n, hasNAT))
DoDelChains == Return("DelChains", "", DelChains(n, hasNAT))
DoAddHooks == Return("AddHooks", "", AddHooks(n, hasNAT))
DoDelHooks == Return("DelHooks", "", DelHooks(n, hasNAT))
DoAddBase == \E tun \in Tuns : Return("AddBase", tun, AddBase(n, tun))
DoDelBase == Return("DelBase", "", DelBase(n))
DoAddLoopbackRule(A) ==
    \E addr \in A : Return("AddLoopbackRule", addr, AddLoopbackRule(n, addr))
DoDelLoopbackRule(A) ==
    \E addr \in A : Return("DelLoopbackRule", addr, DelLoopbackRule(n, addr))
DoAddSNATRule == Return("AddSNATRule", "", AddSNATRule(n, hasNAT))
DoDelSNATRule == Return("DelSNATRule", "", DelSNATRule(n, hasNAT))

Next ==
    \/ DoAddChains
    \/ DoDelChains
    \/ DoAddHooks
    \/ DoDelHooks
    \/ DoAddBase
    \/ DoDelBase
    \/ DoAddLoopbackRule(Addrs)
    \/ DoDelLoopbackRule(Addrs)
    \/ DoAddSNATRule
    \/ DoDelSNATRule

Spec == Init /\ [][Next]_vars

\* The runner of newFakeIPTablesRunner (fresh controllers, both flags true),
\* called with loopback addresses of which two are of one family.
InitLo ==
    /\ n = [f \in FamSet |-> newIPTables]
    /\ hasNAT = [f \in FamSet |-> TRUE]
    /\ last = [op |-> "none", arg |-> "", err |-> Nil,
               calls |-> << >>, log |-> << >>]
    /\ prev = n

NextLo ==
    \/ DoAddChains
    \/ DoDelChains
    \/ DoAddHooks
    \/ DoDelHooks
    \/ DoAddBase
    \/ DoDelBase
    \/ DoAddLoopbackRule(AddrsLo)
    \/ DoDelLoopbackRule(AddrsLo)

SpecLo == InitLo /\ [][NextLo]_vars

(***************************************************************************)
(* Vocabulary of the properties.                                           *)
(***************************************************************************)
Ok == last.err = Nil

Has(rules, r) == \E i \in 1..Len(rules) : rules[i] = r

RemoveAt(rules, i) == SubSeq(rules, 1, i - 1) \o SubSeq(rules, i + 1, Len(rules))

Other(f) == IF f = "v4" THEN "v6" ELSE "v4"

\* the built-in chains the runner hooks, as <<table, chain>>
HookedChains == {<<"filter", "INPUT">>, <<"filter", "FORWARD">>, <<"nat", "POSTROUTING">>}

hookRule(tc) == Join(hookArgs(tc[2]))

\* the hooked chains of family f that the flags make the runner manage
Relevant(f) == {tc \in HookedChains : tc[1] = "filter" \/ hasNAT[f]}

\* the owned chains AddChains creates in family f under the flags
OwnedOf(f) == {k \in OwnedChains : k # "nat/ts-postrouting" \/ hasNAT[f]}

NoOwned(n1) == \A f \in FamSet : DOMAIN n1[f] \cap OwnedChains = {}

OwnedCreated(n1) == \A f \in FamSet : OwnedOf(f) \subseteq DOMAIN n1[f]

NoHooks(n1) ==
    \A f \in FamSet : \A tc \in HookedChains :
        ~Has(Rules(n1[f], Key(tc[1], tc[2])), hookRule(tc))

FreshPair == [f \in FamSet |-> newIPTables]

(***************************************************************************)
(* C1.  AddChains followed by DelChains, from controllers that hold no     *)
(* owned chain (a fresh pair in particular): both calls succeed, and the   *)
(* state after DelChains is exactly the state before AddChains, so no      *)
(* owned chain exists and every built-in chain has its rules as before.    *)
(***************************************************************************)
C1_AddChainsThenDelChains ==
    [][(last.op = "AddChains" /\ NoOwned(prev) /\ last'.op = "DelChains")
         => /\ last.err = Nil
            /\ last'.err = Nil
            /\ n' = prev
            /\ NoOwned(n')
            /\ \A f \in FamSet : BuiltinChains \subseteq DOMAIN n'[f]]_vars

C1_Witness ==
    /\ last.op = "DelChains" /\ Ok
    /\ n = FreshPair
    /\ \A f \in FamSet : DOMAIN prev[f] = BuiltinChains \cup OwnedChains
    /\ \A f \in FamSet : \A k \in DOMAIN prev[f] : prev[f][k] = << >>

(***************************************************************************)
(* C2.  After a successful AddHooks (the first or a later one) with the    *)
(* three owned chains created in both families, each of filter/INPUT,      *)
(* filter/FORWARD and nat/POSTROUTING of v4 and of v6 holds its jump rule  *)
(* exactly once, as its first rule, whatever other rules the chain held.   *)
(* More generally: after any successful AddHooks that holds of every chain *)
(* the flags make the runner hook, and in every state a built-in chain     *)
(* that holds its jump rule holds it once and first.                       *)
(***************************************************************************)
HookFirstOnce(f, tc) ==
    LET rules == Rules(n[f], Key(tc[1], tc[2])) IN
    /\ Len(rules) >= 1
    /\ rules[1] = hookRule(tc)
    /\ Count(rules, hookRule(tc)) = 1

AllOwnedCreated(n1) == \A f \in FamSet : OwnedChains \subseteq DOMAIN n1[f]

C2_HookOnceAtFront ==
    /\ (last.op = "AddHooks" /\ Ok /\ AllOwnedCreated(n))
           => \A f \in FamSet : \A tc \in HookedChains : HookFirstOnce(f, tc)
    /\ (last.op = "AddHooks" /\ Ok)
           => \A f \in FamSet : \A tc \in Relevant(f) : HookFirstOnce(f, tc)
    /\ \A f \in FamSet : \A tc \in HookedChains :
           Has(Rules(n[f], Key(tc[1], tc[2])), hookRule(tc)) => HookFirstOnce(f, tc)

\* a second AddHooks in a row, over built-in chains that hold other rules
C2_Witness ==
    /\ last.op = "AddHooks" /\ Ok /\ AllOwnedCreated(n)
    /\ prev = n
    /\ \A f \in FamSet : \A tc \in HookedChains :
           HookFirstOnce(f, tc) /\ Len(n[f][Key(tc[1], tc[2])]) >= 2

(***************************************************************************)
(* C3.  AddHooks, DelHooks, AddHooks: each call succeeds; after DelHooks   *)
(* no built-in chain of either family holds a jump rule; after the second  *)
(* AddHooks every chain of both families has the rules it had after the    *)
(* first.  (The step checked is the DelHooks that follows a successful     *)
(* AddHooks; the second AddHooks is applied to the state it leaves.)       *)
(***************************************************************************)
C3_HooksRoundTrip ==
    [][(last.op = "AddHooks" /\ last.err = Nil /\ last'.op = "DelHooks")
         => /\ last'.err = Nil
            /\ NoHooks(n')
            /\ AddHooks(n', hasNAT).err = Nil
            /\ AddHooks(n', hasNAT).n = n]_vars

\* the second AddHooks has put back the hooks DelHooks removed
C3_Witness ==
    /\ last.op = "AddHooks" /\ Ok
    /\ NoHooks(prev)
    /\ DelHooks(n, hasNAT).n = prev
    /\ \A f \in FamSet : hasNAT[f] /\ Len(prev[f]["filter/INPUT"]) >= 1
    /\ \A f \in FamSet : \A tc \in HookedChains : HookFirstOnce(f, tc)

(***************************************************************************)
(* C4.  After a successful AddBase(tun): in v4 filter/ts-input the         *)
(* VM-range RETURN rule comes before the CGNAT-range DROP rule, and both   *)
(* come before "-i tun -j ACCEPT"; in filter/ts-forward of v4 and of v6    *)
(* the MARK --set-mark rule and the "-m mark --mark .. -j ACCEPT" rule are *)
(* both present, with one and the same mark/mask pair.                     *)
(***************************************************************************)
\* mark/mask pairs a rule could carry
MarkPairs ==
    {TailscaleSubnetRouteMark \o "/" \o TailscaleFwmarkMask,
     TailscaleSubnetRouteMark \o "/" \o TailscaleSubnetRouteMark,
     TailscaleFwmarkMask \o "/" \o TailscaleFwmarkMask}

C4_BaseOrderAndMark ==
    (last.op = "AddBase" /\ Ok) =>
        LET tun == last.arg
            input4 == n["v4"]["filter/ts-input"]
            ret == FirstIndex(input4, Join(vmReturnArgs(tun)))
            drop == FirstIndex(input4, Join(cgnatDropArgs(tun)))
            acc == FirstIndex(input4, Join(inAcceptArgs(tun))) IN
        /\ 0 < ret /\ ret < drop /\ drop < acc
        /\ \A i \in 1..Len(input4) :
               input4[i] = Join(cgnatDropArgs(tun))
                   => \E j \in 1..(i - 1) : input4[j] = Join(vmReturnArgs(tun))
        /\ \E mm \in MarkPairs : \A f \in FamSet :
               /\ Has(n[f]["filter/ts-forward"],
                      Join(<<"-i", tun, "-j", "MARK", "--set-mark", mm>>))
               /\ Has(n[f]["filter/ts-forward"],
                      Join(<<"-m", "mark", "--mark", mm, "-j", "ACCEPT">>))

\* AddBase onto an input chain that already holds a loopback rule
C4_Witness ==
    /\ last.op = "AddBase" /\ Ok
    /\ Len(prev["v4"]["filter/ts-input"]) = 1
    /\ Len(n["v4"]["filter/ts-input"]) = 4
    /\ Len(n["v6"]["filter/ts-forward"]) = 3

(***************************************************************************)
(* C5.  A successful AddLoopbackRule(addr) makes "-i lo -s addr -j ACCEPT" *)
(* the first rule of filter/ts-input in the controller of addr's family,   *)
(* in front of the rules the chain held (base rules included), and changes *)
(* nothing else: the other family's controller is as before.               *)
(***************************************************************************)
C5_LoopbackAtFront ==
    (last.op = "AddLoopbackRule" /\ Ok) =>
        LET f == IF last.arg \in V4Addrs THEN "v4" ELSE "v6"
            k == "filter/ts-input" IN
        /\ last.arg \in V4Addrs \cup V6Addrs
        /\ k \in DOMAIN prev[f]
        /\ n[f][k][1] = Join(loopbackArgs(last.arg))
        /\ n[f][k] = <<Join(loopbackArgs(last.arg))>> \o prev[f][k]
        /\ n[Other(f)] = prev[Other(f)]
        /\ n = [prev EXCEPT ![f][k] = n[f][k]]

\* a v6 loopback rule put in front of the v6 base rule, with v4 base rules around
C5_Witness ==
    /\ last.op = "AddLoopbackRule" /\ Ok
    /\ last.arg \in V6Addrs
    /\ Has(prev["v6"]["filter/ts-input"], Join(inAcceptArgs("tun0")))
    /\ Has(n["v4"]["filter/ts-input"], Join(cgnatDropArgs("tun0")))
    /\ ~Has(n["v4"]["filter/ts-input"], Join(loopbackArgs(last.arg)))

(***************************************************************************)
(* C6.  DelLoopbackRule(addr) called while "-i lo -s addr -j ACCEPT" is in *)
(* filter/ts-input of addr's family succeeds and removes one occurrence of *)
(* that rule and nothing else: the other rules of the chain (loopback      *)
(* rules of other addresses, base rules) keep their order, and every other *)
(* chain of both families (the hooks included) is as before.               *)
(***************************************************************************)
C6_DelLoopbackExact ==
    (last.op = "DelLoopbackRule") =>
        LET f == IF last.arg \in V4Addrs THEN "v4" ELSE "v6"
            k == "filter/ts-input"
            r == Join(loopbackArgs(last.arg)) IN
        /\ Has(Rules(prev[f], k), r) => Ok
        /\ Ok =>
              /\ \E i \in 1..Len(prev[f][k]) :
                     /\ prev[f][k][i] = r
                     /\ n[f][k] = RemoveAt(prev[f][k], i)
              /\ n = [prev EXCEPT ![f][k] = n[f][k]]

\* the rule removed from between another address's rule and the base rules,
\* with the hooks in place
C6_Witness ==
    /\ last.op = "DelLoopbackRule" /\ Ok
    /\ last.arg = "192.168.0.2"
    /\ prev["v4"]["filter/ts-input"][1] = Join(loopbackArgs("192.168.0.3"))
    /\ prev["v4"]["filter/ts-input"][2] = Join(loopbackArgs("192.168.0.2"))
    /\ Has(n["v4"]["filter/ts-input"], Join(cgnatDropArgs("tun0")))
    /\ Has(n["v4"]["filter/ts-input"], Join(loopbackArgs("192.168.0.3")))
    /\ Has(n["v4"]["filter/INPUT"], "-j ts-input")
    /\ Has(n["v6"]["filter/ts-input"], Join(loopbackArgs("2001:db8::2")))

(***************************************************************************)
(* C7.  The NAT flags.  For a family whose flag is false no operation      *)
(* makes a controller call on its nat table, so that table (chains and     *)
(* rules) is as before and no error comes from it: an error an operation   *)
(* returns is the error of the last call it made.  For a family whose flag *)
(* is true a successful AddSNATRule has appended the MASQUERADE rule on    *)
(* the subnet-route mark to nat/ts-postrouting; AddSNATRule succeeds as    *)
(* soon as that chain exists in the families whose flag is true.           *)
(***************************************************************************)
NatKeys == {"nat/PREROUTING", "nat/OUTPUT", "nat/POSTROUTING", "nat/ts-postrouting"}

NatPart(m) == [k \in DOMAIN m \cap NatKeys |-> m[k]]

C7_NATFlag ==
    /\ \A f \in FamSet : ~hasNAT[f] =>
           /\ NatPart(n[f]) = NatPart(prev[f])
           /\ \A i \in 1..Len(last.calls) :
                  ~(last.calls[i].fam = f /\ last.calls[i].table = "nat")
    /\ ~Ok => /\ Len(last.calls) >= 1
              /\ last.calls[Len(last.calls)].err = last.err
    /\ (last.op = "AddSNATRule" /\ Ok) =>
           \A f \in FamSet : hasNAT[f] =>
               n[f]["nat/ts-postrouting"] =
                   Append(prev[f]["nat/ts-postrouting"],
                          "-m mark --mark " \o TailscaleSubnetRouteMark \o "/"
                              \o TailscaleFwmarkMask \o " -j MASQUERADE")
    /\ (/\ last.op = "AddSNATRule"
        /\ \A f \in FamSet : hasNAT[f] => "nat/ts-postrouting" \in DOMAIN prev[f])
           => Ok

\* v4 with NAT, v6 without: after AddChains and AddHooks, AddSNATRule has
\* put the rule into v4 and has left the v6 nat table as newIPTables made it
C7_Witness ==
    /\ last.op = "AddSNATRule" /\ Ok
    /\ hasNAT["v4"] /\ ~hasNAT["v6"]
    /\ Has(n["v4"]["nat/ts-postrouting"], Join(snatArgs))
    /\ Has(n["v4"]["nat/POSTROUTING"], "-j ts-postrouting")
    /\ Has(n["v6"]["filter/FORWARD"], "-j ts-forward")
    /\ "filter/ts-forward" \in DOMAIN n["v6"]
    /\ "nat/ts-postrouting" \notin DOMAIN n["v6"]
    /\ ~Has(n["v6"]["nat/POSTROUTING"], "-j ts-postrouting")

(***************************************************************************)
(* C8.  DelChains over owned chains that still hold rules: every           *)
(* DeleteChain it calls comes right after a successful ClearChain of the   *)
(* same chain and finds the chain empty; DelChains succeeds, and no owned  *)
(* chain exists afterwards in either family.                               *)
(***************************************************************************)
C8_DelChainsClearsFirst ==
    (last.op = "DelChains") =>
        /\ Ok
        /\ NoOwned(n)
        /\ \A i \in 1..Len(last.calls) :
               last.calls[i].op = "DeleteChain" =>
                   /\ last.calls[i].len = 0
                   /\ i > 1
                   /\ last.calls[i - 1].op = "ClearChain"
                   /\ last.calls[i - 1].err = Nil
                   /\ last.calls[i - 1].fam = last.calls[i].fam
                   /\ last.calls[i - 1].table = last.calls[i].table
                   /\ last.calls[i - 1].chain = last.calls[i].chain
        /\ \A f \in FamSet : \A k \in DOMAIN prev[f] \cap OwnedChains :
               \E i \in 1..Len(last.calls) :
                   /\ last.calls[i].op = "DeleteChain"
                   /\ last.calls[i].fam = f
                   /\ Key(last.calls[i].table, last.calls[i].chain) = k

\* DelChains after AddChains, AddBase, AddLoopbackRule (v4 and v6) and
\* AddSNATRule, none of them undone
C8_Witness ==
    /\ last.op = "DelChains" /\ Ok /\ NoOwned(n)
    /\ \A f \in FamSet : \A k \in OwnedChains :
           k \in DOMAIN prev[f] /\ Len(prev[f][k]) >= 1
    /\ Len(prev["v4"]["filter/ts-input"]) = 4
    /\ Len(prev["v6"]["filter/ts-input"]) = 2

(***************************************************************************)
(* C9.  Every Del* operation called when its effect is absent (no owned    *)
(* chain for DelChains, no hook for DelHooks, no base rule for DelBase,    *)
(* no loopback rule of addr for DelLoopbackRule(addr), no MASQUERADE rule  *)
(* for DelSNATRule) returns success and leaves both controllers unchanged. *)
(***************************************************************************)
baseRules(f, tun) ==
    {Join(inAcceptArgs(tun)), Join(markSetArgs(tun)), Join(markAcceptArgs),
     Join(outAcceptArgs(tun))}
    \cup (IF f = "v4"
          THEN {Join(vmReturnArgs(tun)), Join(cgnatDropArgs(tun)), Join(fwdDropArgs(tun))}
          ELSE {})

EffectAbsent(op, arg, n1) ==
    CASE op = "DelChains" -> NoOwned(n1)
      [] op = "DelHooks" -> NoHooks(n1)
      [] op = "DelBase" ->
            \A f \in FamSet : \A k \in {"filter/ts-input", "filter/ts-forward"} :
                \A tun \in Tuns : \A r \in baseRules(f, tun) : ~Has(Rules(n1[f], k), r)
      [] op = "DelLoopbackRule" ->
            ~Has(Rules(n1[IF arg \in V4Addrs THEN "v4" ELSE "v6"], "filter/ts-input"),
                 Join(loopbackArgs(arg)))
      [] op = "DelSNATRule" ->
            \A f \in FamSet : ~Has(Rules(n1[f], "nat/ts-postrouting"), Join(snatArgs))
      [] OTHER -> FALSE

C9_DelSafeWhenAbsent ==
    EffectAbsent(last.op, last.arg, prev) => (Ok /\ n = prev)

(***************************************************************************)
(* C10.  AddChains, AddBase(tun), AddLoopbackRule(addr) and AddSNATRule    *)
(* called when their effect is fully present (the owned chains exist; all  *)
(* base rules of tun are in place; the loopback rule of addr is in place;  *)
(* the MASQUERADE rule is in place) succeed and leave every chain's rule   *)
(* list as it was.                                                         *)
(***************************************************************************)
EffectPresent(op, arg, n1) ==
    CASE op = "AddChains" -> OwnedCreated(n1)
      [] op = "AddBase" ->
            /\ \A r \in {Join(vmReturnArgs(arg)), Join(cgnatDropArgs(arg)),
                         Join(inAcceptArgs(arg))} :
                   Has(Rules(n1["v4"], "filter/ts-input"), r)
            /\ Has(Rules(n1["v6"], "filter/ts-input"), Join(inAcceptArgs(arg)))
            /\ \A f \in FamSet : \A r \in baseRules(f, arg) :
                   \E k \in {"filter/ts-input", "filter/ts-forward"} : Has(Rules(n1[f], k), r)
      [] op = "AddLoopbackRule" ->
            Has(Rules(n1[IF arg \in V4Addrs THEN "v4" ELSE "v6"], "filter/ts-input"),
                Join(loopbackArgs(arg)))
      [] op = "AddSNATRule" ->
            \A f \in FamSet : hasNAT[f] =>
                Has(Rules(n1[f], "nat/ts-postrouting"), Join(snatArgs))
      [] OTHER -> FALSE

C10_AddIdempotent ==
    EffectPresent(last.op, last.arg, prev) => (Ok /\ n = prev)

(***************************************************************************)
(* The runner of newFakeIPTablesRunner over controllers whose built-in     *)
(* chains already hold some of the six hooks (what an earlier run that was *)
(* not torn down, or was torn down in part, leaves behind), called with    *)
(* the chain and hook operations.                                          *)
(***************************************************************************)
HookSlots == {<<f, tc>> : f \in FamSet, tc \in HookedChains}

\* the built-in chains of family f: the hooks of H in front of the rules pre
withHooks(f, H, pre) ==
    [k \in DOMAIN newIPTables |->
        LET hs == {tc \in HookedChains : Key(tc[1], tc[2]) = k /\ <<f, tc>> \in H} IN
        (IF hs # {} THEN <<hookRule(CHOOSE tc \in hs : TRUE)>> ELSE << >>) \o pre]

InitHk ==
    /\ \E pre \in ForeignLists : \E H \in SUBSET HookSlots :
          n = [f \in FamSet |-> withHooks(f, H, pre[f])]
    /\ hasNAT = [f \in FamSet |-> TRUE]
    /\ last = [op |-> "none", arg |-> "", err |-> Nil,
               calls |-> << >>, log |-> << >>]
    /\ prev = n

NextHk ==
    \/ DoAddChains
    \/ DoDelChains
    \/ DoAddHooks
    \/ DoDelHooks

SpecHk == InitHk /\ [][NextHk]_vars

(***************************************************************************)
(* C11.  DelHooks is best-effort and total.  Whatever subset of the six    *)
(* hooks is missing when it is called, DelHooks returns success; the log   *)
(* callback has received one line for each missing hook and for nothing    *)
(* else; afterwards no built-in chain of either family holds a hook; and   *)
(* every chain is what it was with the hooks taken out.                    *)
(***************************************************************************)
MissingHooks(n1) ==
    {<<f, tc[1], tc[2]>> : <<f, tc>> \in
        {s \in HookSlots :
            ~Has(Rules(n1[s[1]], Key(s[2][1], s[2][2])), hookRule(s[2]))}}

withoutHooks(f, m) ==
    [k \in DOMAIN m |->
        SelectSeq(m[k], LAMBDA r :
            ~\E tc \in HookedChains : k = Key(tc[1], tc[2]) /\ r = hookRule(tc))]

C11_DelHooksBestEffort ==
    (last.op = "DelHooks") =>
        /\ Ok
        /\ {last.log[i] : i \in 1..Len(last.log)} = MissingHooks(prev)
        /\ Len(last.log) = Cardinality(MissingHooks(prev))
        /\ NoHooks(n)
        /\ n = [f \in FamSet |-> withoutHooks(f, prev[f])]
        /\ Len(last.calls) = Cardinality(HookSlots)

\* DelHooks over a v4 controller with its three hooks and a v6 controller
\* with only the FORWARD hook, the built-in chains holding other rules too
C11_Witness ==
    /\ last.op = "DelHooks" /\ Ok
    /\ NoHooks(n)
    /\ MissingHooks(prev) = {<<"v6", "filter", "INPUT">>, <<"v6", "nat", "POSTROUTING">>}
    /\ Len(last.log) = 2
    /\ n["v4"]["filter/INPUT"] = <<"-j DROP">>
    /\ prev["v4"]["filter/INPUT"] = <<"-j ts-input", "-j DROP">>

(***************************************************************************)
(* C12.  Address-family pairing.  In every state, after an operation that  *)
(* succeeded or one that returned an error: each owned chain of the filter *)
(* table, each hook of the filter table and each common base rule of tun   *)
(* ("-i tun -j ACCEPT" in ts-input; the MARK set rule, the mark-match      *)
(* ACCEPT rule and "-o tun -j ACCEPT" in ts-forward) is in both            *)
(* controllers or in neither; the same holds of nat/ts-postrouting and of  *)
(* the nat/POSTROUTING hook when the two NAT flags are equal; a family     *)
(* whose flag is false holds neither of the two.                           *)
(***************************************************************************)
PairedChain(k) == (k \in DOMAIN n["v4"]) <=> (k \in DOMAIN n["v6"])

PairedRule(k, r) == Has(Rules(n["v4"], k), r) <=> Has(Rules(n["v6"], k), r)

PairedHook(tc) == PairedRule(Key(tc[1], tc[2]), hookRule(tc))

CommonBasePaired ==
    \A tun \in Tuns :
        /\ PairedRule("filter/ts-input", Join(inAcceptArgs(tun)))
        /\ PairedRule("filter/ts-forward", Join(markSetArgs(tun)))
        /\ PairedRule("filter/ts-forward", Join(markAcceptArgs))
        /\ PairedRule("filter/ts-forward", Join(outAcceptArgs(tun)))

C12_FamiliesPaired ==
    /\ \A k \in OwnedChains :
           (k # "nat/ts-postrouting" \/ hasNAT["v4"] = hasNAT["v6"]) => PairedChain(k)
    /\ \A tc \in HookedChains :
           (tc[1] = "filter" \/ hasNAT["v4"] = hasNAT["v6"]) => PairedHook(tc)
    /\ CommonBasePaired
    /\ \A f \in FamSet : ~hasNAT[f] =>
           /\ "nat/ts-postrouting" \notin DOMAIN n[f]
           /\ ~Has(n[f]["nat/POSTROUTING"], "-j ts-postrouting")

\* C12 as stated: every owned chain and every hook, the nat ones included,
\* whatever the NAT flags
C12_Original ==
    /\ \A k \in OwnedChains : PairedChain(k)
    /\ \A tc \in HookedChains : PairedHook(tc)
    /\ CommonBasePaired

\* a second AddChains has returned its error over controllers that hold the
\* chains, the hooks and the base rules, v4 with NAT and v6 without
C12_Witness ==
    /\ last.op = "AddChains" /\ ~Ok
    /\ hasNAT["v4"] /\ ~hasNAT["v6"]
    /\ \A f \in FamSet :
           /\ Has(Rules(n[f], "filter/ts-input"), Join(inAcceptArgs("tun0")))
           /\ Has(Rules(n[f], "filter/ts-forward"), Join(markAcceptArgs))
           /\ Has(n[f]["filter/FORWARD"], "-j ts-forward")
    /\ "nat/ts-postrouting" \in DOMAIN n["v4"]
    /\ "nat/ts-postrouting" \notin DOMAIN n["v6"]

(***************************************************************************)
(* The runner of newFakeIPTablesRunner over controllers that already hold  *)
(* some of the owned chains (what a run that ended half-way leaves), so    *)
(* that an operation can fail after some of its controller calls succeeded.*)
(***************************************************************************)
LeftChains ==
    {[v4 |-> {}, v6 |-> {}],
     [v4 |-> {}, v6 |-> {"filter/ts-forward"}],
     [v4 |-> {"filter/ts-input", "filter/ts-forward"}, v6 |-> {}],
     [v4 |-> OwnedChains, v6 |-> {"filter/ts-input", "filter/ts-forward"}]}

InitLeft ==
    /\ \E L \in LeftChains :
          n = [f \in FamSet |-> [k \in DOMAIN newIPTables \cup L[f] |-> << >>]]
    /\ hasNAT = [f \in FamSet |-> TRUE]
    /\ last = [op |-> "none", arg |-> "", err |-> Nil,
               calls |-> << >>, log |-> << >>]
    /\ prev = n

SpecLeft == InitLeft /\ [][Next]_vars

(***************************************************************************)
(* C13.  Stop at the first fatal error.  A failed controller call of an    *)
(* operation, unless it is a Delete of DelHooks or a ClearChain of         *)
(* DelChains or DelBase, is the last call the operation makes, and its     *)
(* error is the error the operation returns; an operation none of whose    *)
(* calls failed that way returns nil.  Nothing is rolled back: the         *)
(* controllers are what the calls made, applied in order to the state the  *)
(* operation was called in, leave.                                         *)
(***************************************************************************)
Tolerated(op, c) ==
    \/ op = "DelHooks" /\ c.op = "Delete"
    \/ op \in {"DelChains", "DelBase"} /\ c.op = "ClearChain"

Fatal(op, c) == c.err # Nil /\ ~Tolerated(op, c)

RECURSIVE Replay(_, _)
Replay(n1, cs) ==
    IF Len(cs) = 0 THEN n1
    ELSE Replay([n1 EXCEPT ![Head(cs).fam] = Invoke(n1[Head(cs).fam], Head(cs)).n],
                Tail(cs))

C13_StopAtFirstFatal ==
    /\ \A i \in 1..Len(last.calls) :
           Fatal(last.op, last.calls[i])
               => i = Len(last.calls) /\ last.err = last.calls[i].err
    /\ (\A i \in 1..Len(last.calls) : ~Fatal(last.op, last.calls[i])) => Ok
    /\ n = Replay(prev, last.calls)

\* AddBase over v4 chains that exist and v6 chains that do not: the seven v4
\* rules are appended, the first v6 append fails, the v4 rules stay
C13_Witness ==
    /\ last.op = "AddBase" /\ last.err = errExec
    /\ Len(last.calls) = 8
    /\ last.calls[8].fam = "v6" /\ last.calls[8].err = errExec
    /\ \A i \in 1..7 : last.calls[i].fam = "v4" /\ last.calls[i].err = Nil
    /\ Len(n["v4"]["filter/ts-input"]) = Len(prev["v4"]["filter/ts-input"]) + 3
    /\ Len(n["v4"]["filter/ts-forward"]) = Len(prev["v4"]["filter/ts-forward"]) + 4
    /\ "filter/ts-input" \notin DOMAIN n["v6"]

(***************************************************************************)
(* The controller on its own: the calls of the interface made directly on  *)
(* the v4 controller of a fresh pair, as the tests make them (proto.Exists *)
(* and the like), with any chain, position and argument list.              *)
(***************************************************************************)
CtlFam == "v4"

CtlChains == {<<"filter", "INPUT">>, <<"filter", "ts-input">>}

\* argument lists: two that differ in order, two that differ only in where
\* the list is split
ArgLists == {<<"-j", "DROP">>, <<"DROP", "-j">>, <<"-j DROP">>}

InitCtl ==
    /\ n = [f \in FamSet |-> newIPTables]
    /\ hasNAT = [f \in FamSet |-> TRUE]
    /\ last = [op |-> "none", arg |-> "", err |-> Nil, ok |-> FALSE,
               calls |-> << >>, log |-> << >>]
    /\ prev = n

DoCall(c) ==
    LET r == Invoke(n[CtlFam], c) IN
    /\ \A k \in DOMAIN r.n : Len(r.n[k]) <= MaxLen
    /\ n' = [n EXCEPT ![CtlFam] = r.n]
    /\ last' = [op |-> c.op, arg |-> "", err |-> r.err, ok |-> r.ok,
                calls |-> <<c>>, log |-> << >>]
    /\ prev' = n
    /\ UNCHANGED hasNAT

CtlInsert ==
    \E tc \in CtlChains : \E pos \in 1..(MaxLen + 2) : \E args \in ArgLists :
        DoCall(Call("Insert", tc[1], tc[2], pos, args))
CtlAppend ==
    \E tc \in CtlChains : \E args \in ArgLists :
        DoCall(Call("Append", tc[1], tc[2], 0, args))
CtlExists ==
    \E tc \in CtlChains : \E args \in ArgLists :
        DoCall(Call("Exists", tc[1], tc[2], 0, args))
CtlDelete ==
    \E tc \in CtlChains : \E args \in ArgLists :
        DoCall(Call("Delete", tc[1], tc[2], 0, args))
CtlClearChain ==
    \E tc \in CtlChains : DoCall(Call("ClearChain", tc[1], tc[2], 0, << >>))
CtlNewChain ==
    \E tc \in CtlChains : DoCall(Call("NewChain", tc[1], tc[2], 0, << >>))
CtlDeleteChain ==
    \E tc \in CtlChains : DoCall(Call("DeleteChain", tc[1], tc[2], 0, << >>))

NextCtl ==
    \/ CtlInsert
    \/ CtlAppend
    \/ CtlExists
    \/ CtlDelete
    \/ CtlClearChain
    \/ CtlNewChain
    \/ CtlDeleteChain

SpecCtl == InitCtl /\ [][NextCtl]_vars

\* the direct call that returned last, its chain before and after
TheCall == last.calls[1]
TheKey == Key(TheCall.table, TheCall.chain)
Known == TheKey \in DOMAIN prev[CtlFam]
Before == Rules(prev[CtlFam], TheKey)
After == Rules(n[CtlFam], TheKey)
OnlyTheChain == n = [prev EXCEPT ![CtlFam][TheKey] = After]

(***************************************************************************)
(* C14.  Insert(table, chain, pos, args) on an existing chain with         *)
(* pos <= len+1 returns nil; the new rule is the pos-th rule; the rules    *)
(* before pos are as they were, those from pos on are one place further    *)
(* down; the chain is one rule longer; no other chain changes; and Exists  *)
(* of the same arguments then returns (true, nil).  Insert with            *)
(* pos > len+1, or on an unknown chain, returns an error and changes       *)
(* nothing.                                                                *)
(***************************************************************************)
C14_Insert ==
    (last.op = "Insert") =>
        IF Known /\ TheCall.pos <= Len(Before) + 1
        THEN /\ Ok
             /\ Len(After) = Len(Before) + 1
             /\ After[TheCall.pos] = Join(TheCall.args)
             /\ \A i \in 1..Len(Before) :
                    IF i < TheCall.pos THEN After[i] = Before[i]
                    ELSE After[i + 1] = Before[i]
             /\ OnlyTheChain
             /\ Exists(n[CtlFam], TheCall.table, TheCall.chain, TheCall.args).ok
             /\ Exists(n[CtlFam], TheCall.table, TheCall.chain, TheCall.args).err = Nil
        ELSE /\ last.err # Nil
             /\ n = prev

\* a rule inserted at position 2 of a chain of two other rules, another
\* chain holding rules
C14_Witness ==
    /\ last.op = "Insert" /\ Ok
    /\ TheCall.pos = 2
    /\ Before = <<"-j DROP", "-j DROP">>
    /\ After = <<"-j DROP", "DROP -j", "-j DROP">>
    /\ TheKey = "filter/ts-input"
    /\ Len(n[CtlFam]["filter/INPUT"]) = 2

(***************************************************************************)
(* C15.  Exists(table, chain, args) returns (true, nil) exactly when the   *)
(* chain holds a rule whose argument list equals args element by element,  *)
(* two different argument lists never matching each other; (false, nil)    *)
(* when the chain exists and holds no such rule, as for every rule on the  *)
(* built-in chains of a fresh controller; an error when the chain is       *)
(* unknown.  The controller holds a chain's rules as joined strings, so     *)
(* "holds a rule whose argument list is args" is stated step by step: a    *)
(* list is found after Insert or Append only if it is the list just        *)
(* inserted or was found before.                                           *)
(***************************************************************************)
Found(m, c, args) == Exists(m, c.table, c.chain, args)

C15_ExistsExact ==
    /\ (last.op = "Exists") =>
           /\ n = prev
           /\ IF Known THEN Ok ELSE last.err # Nil /\ ~last.ok
    /\ (last.op \in {"Insert", "Append"} /\ Ok) =>
           /\ Found(n[CtlFam], TheCall, TheCall.args).ok
           /\ \A args \in ArgLists :
                  Found(n[CtlFam], TheCall, args).ok
                      => \/ args = TheCall.args
                         \/ Found(prev[CtlFam], TheCall, args).ok
    /\ (n[CtlFam] = newIPTables) =>
           \A t \in {"filter", "nat"} :
               \A c \in {"INPUT", "OUTPUT", "FORWARD", "PREROUTING", "POSTROUTING"} :
                   \A args \in ArgLists :
                       Key(t, c) \in BuiltinChains =>
                           Exists(n[CtlFam], t, c, args) =
                               [n |-> n[CtlFam], err |-> Nil, ok |-> FALSE]

(***************************************************************************)
(* C16.  DeleteChain(table, chain) removes the chain, and nothing else,    *)
(* when the chain exists and holds no rule; on a chain that holds rules it *)
(* returns an error and the chain keeps all its rules; on an absent chain  *)
(* it returns an error.  No chain ever disappears other than by a          *)
(* DeleteChain of that chain called while it was empty.                    *)
(***************************************************************************)
C16_DeleteChainEmptyOnly ==
    /\ (last.op = "DeleteChain") =>
           IF Known /\ Len(Before) = 0
           THEN /\ Ok
                /\ n[CtlFam] = [j \in DOMAIN prev[CtlFam] \ {TheKey} |-> prev[CtlFam][j]]
                /\ \A f \in FamSet \ {CtlFam} : n[f] = prev[f]
           ELSE /\ last.err = errExec
                /\ n = prev
    /\ \A f \in FamSet : \A k \in DOMAIN prev[f] \ DOMAIN n[f] :
           /\ last.op = "DeleteChain"
           /\ f = CtlFam /\ k = TheKey
           /\ prev[f][k] = << >>

\* DeleteChain refused on a chain of two rules
C16_Witness ==
    /\ last.op = "DeleteChain" /\ last.err = errExec
    /\ TheKey = "filter/ts-input"
    /\ Before = <<"-j DROP", "DROP -j">>
    /\ After = Before
    /\ n = prev

(***************************************************************************)
(* C17.  Delete(table, chain, args) on a chain that holds the rule removes *)
(* the first rule that matches and no other: the chain is one rule         *)
(* shorter, the rules before and after the removed one (later copies of    *)
(* the same rule included) keep their order, and no other chain changes.   *)
(* When no rule matches, or the chain is unknown, Delete returns an error  *)
(* and changes nothing.  (A rule matches when it is the joined string of   *)
(* args, which is how the controller holds and compares rules.)            *)
(***************************************************************************)
C17_DeleteFirstMatch ==
    (last.op = "Delete") =>
        LET r == Join(TheCall.args) IN
        IF Known /\ Has(Before, r)
        THEN /\ Ok
             /\ Len(After) = Len(Before) - 1
             /\ \E i \in 1..Len(Before) :
                    /\ Before[i] = r
                    /\ \A j \in 1..(i - 1) : Before[j] # r
                    /\ After = RemoveAt(Before, i)
             /\ Count(After, r) = Count(Before, r) - 1
             /\ OnlyTheChain
        ELSE /\ last.err = errExec
             /\ n = prev

\* the first of two copies removed, the later copy and the rule between
\* them left in order
C17_Witness ==
    /\ last.op = "Delete" /\ Ok
    /\ TheCall.args = <<"-j", "DROP">>
    /\ Before = <<"-j DROP", "DROP -j", "-j DROP">>
    /\ After = <<"DROP -j", "-j DROP">>
    /\ Len(n[CtlFam]["filter/INPUT"]) >= 1

(***************************************************************************)
(* C18.  AddBase(tun) followed by DelBase: DelBase succeeds; afterwards    *)
(* none of the rules AddBase installs is in filter/ts-input or             *)
(* filter/ts-forward of either family; and DelBase has removed nothing     *)
(* else: every loopback accept rule, the MASQUERADE rule and every hook    *)
(* that was there before DelBase is still there.                           *)
(***************************************************************************)
NoBase(n1, tun) ==
    \A f \in FamSet : \A k \in {"filter/ts-input", "filter/ts-forward"} :
        \A r \in baseRules("v4", tun) : ~Has(Rules(n1[f], k), r)

\* the rules of other operations: where each is, and which rule it is
OtherRules ==
    {<<addrFam(a), "filter/ts-input", Join(loopbackArgs(a))>> : a \in AddrsLo}
    \cup {<<f, "nat/ts-postrouting", Join(snatArgs)>> : f \in FamSet}
    \cup {<<s[1], Key(s[2][1], s[2][2]), hookRule(s[2])>> : s \in HookSlots}

Kept(n1, n2) ==
    \A o \in OtherRules :
        Count(Rules(n2[o[1]], o[2]), o[3]) = Count(Rules(n1[o[1]], o[2]), o[3])

C18_DelBaseExact ==
    [][(last.op = "AddBase" /\ last.err = Nil /\ last'.op = "DelBase")
         => /\ last'.err = Nil
            /\ NoBase(n', last.arg)
            /\ Kept(n, n')]_vars

(***************************************************************************)
(* C19.  Built-in chains are preserved.  After any sequence of runner      *)
(* operations the six built-in chains exist in both families; the only     *)
(* controller calls the runner makes on a built-in chain are Exists,       *)
(* Insert and Delete of that chain's hook; and the other rules of every    *)
(* built-in chain are, in order, the rules it held at the start.           *)
(***************************************************************************)
BuiltinNames == {"INPUT", "OUTPUT", "FORWARD", "PREROUTING", "POSTROUTING"}

C19_BuiltinsPreserved ==
    /\ \A f \in FamSet : BuiltinChains \subseteq DOMAIN n[f]
    /\ \A i \in 1..Len(last.calls) :
           last.calls[i].chain \in BuiltinNames =>
               /\ last.calls[i].op \in {"Exists", "Insert", "Delete"}
               /\ <<last.calls[i].table, last.calls[i].chain>> \in HookedChains
               /\ last.calls[i].args = hookArgs(last.calls[i].chain)
    /\ \A f \in FamSet : \A k \in BuiltinChains :
           withoutHooks(f, n[f])[k] = withoutHooks(f, prev[f])[k]
    /\ \E pre \in ForeignLists : \A f \in FamSet : \A k \in BuiltinChains :
           withoutHooks(f, n[f])[k] = pre[f]

\* DelHooks has taken the hooks out of built-in chains that hold other
\* rules, with base, loopback and SNAT rules in the owned chains
C19_Witness ==
    /\ last.op = "DelHooks" /\ Ok
    /\ \A f \in FamSet : hasNAT[f]
    /\ prev["v6"]["nat/POSTROUTING"] =
           <<"-j ts-postrouting", "-p ipv6-icmp -j ACCEPT", "-j DROP">>
    /\ n["v6"]["nat/POSTROUTING"] = <<"-p ipv6-icmp -j ACCEPT", "-j DROP">>
    /\ n["v4"]["filter/INPUT"] = <<"-j DROP">>
    /\ n["v4"]["filter/OUTPUT"] = <<"-j DROP">>
    /\ Has(Rules(n["v4"], "filter/ts-input"), Join(loopbackArgs("192.168.0.2")))
    /\ Has(Rules(n["v4"], "filter/ts-forward"), Join(markAcceptArgs))
    /\ Has(Rules(n["v6"], "nat/ts-postrouting"), Join(snatArgs))

(***************************************************************************)
(* C20.  No orphaned hooks.  In every state left by an operation that      *)
(* returned nil, a built-in chain that holds a hook has the owned chain    *)
(* the hook jumps to in the same family; so AddChains, AddHooks, DelChains *)
(* does not leave a hook whose owned chain is gone.                        *)
(***************************************************************************)
Orphaned(f, tc) ==
    /\ Has(Rules(n[f], Key(tc[1], tc[2])), hookRule(tc))
    /\ Key(tc[1], tsChain(tc[2])) \notin DOMAIN n[f]

C20_NoOrphanHooks ==
    Ok => \A f \in FamSet : \A tc \in HookedChains : ~Orphaned(f, tc)

====
